---- MODULE Spec2Model ----
(***************************************************************************)
(* A model of update_repo_info.py: the README annotation run.              *)
(*                                                                         *)
(* A document is a sequence of characters, each a string of length one.    *)
(* The characters that cannot be written as themselves have names:         *)
(*   "NL"                    the newline                                   *)
(*   "BT", "DQ", "SQ"        the backtick, the double and the single quote *)
(*   "STAR", "CLOCK"         the star glyph and the clock glyph            *)
(*   "ZWSP", "ZWNJ", "ZWJ"   the three invisible codes of REPO_INFO_MARK   *)
(* Offsets (start_pos, end_pos) count characters from 0, as in Python.     *)
(***************************************************************************)
EXTENDS Integers, Sequences, FiniteSets, TLC

-----------------------------------------------------------------------------
(* Bounds of the model *)

\* The longest initial document, counted in pieces of Vocabulary.
MaxFrags == 3
\* How many times the program is run on the same file.
MaxRuns == 2

-----------------------------------------------------------------------------
(* Characters and their classes *)

SP == " "
NL == "NL"
BT == "BT"
DQ == "DQ"
SQ == "SQ"
STAR == "STAR"
CLOCK == "CLOCK"

\* REPO_INFO_MARK = '​‌‍'
REPO_INFO_MARK == <<"ZWSP", "ZWNJ", "ZWJ">>

Digit == <<"0", "1", "2", "3", "4", "5", "6", "7", "8", "9">>
Digits == {Digit[i] : i \in 1..10}

LowerLetters ==
    {"a", "b", "c", "d", "e", "f", "g", "h", "i", "j", "k", "l", "m", "n", "o",
     "p", "q", "r", "s", "t", "u", "v", "w", "x", "y", "z"}
UpperLetters == {"E", "F", "H", "R", "T", "Z"}

\* \w : letters, digits and the underscore
WordChars == LowerLetters \cup UpperLetters \cup Digits \cup {"_"}

\* \s : whitespace (the codes of the marker are not whitespace)
SpaceChars == {SP, NL}
IsSpace(c) == c \in SpaceChars

\* [\w.-] : the characters of an owner or a repository name
NameChars == WordChars \cup {".", "-"}

\* [\w./-] : what the negative lookahead of REPO_LINK_RE refuses
PathChars == WordChars \cup {".", "/", "-"}

\* the lower case of a character, for re.IGNORECASE
Lower(c) ==
    CASE c = "E" -> "e" [] c = "F" -> "f" [] c = "H" -> "h" [] c = "R" -> "r"
      [] c = "T" -> "t" [] c = "Z" -> "z" [] OTHER -> c

-----------------------------------------------------------------------------
(* Python string operations on character sequences *)

Min(a, b) == IF a < b THEN a ELSE b
Max(a, b) == IF a > b THEN a ELSE b

\* a slice bound as Python normalises it: negative counts from the end,
\* and everything is clamped to 0..len(s)
SliceBound(s, i) == IF i < 0 THEN Max(0, Len(s) + i) ELSE Min(i, Len(s))

\* s[i:j]
Slice(s, i, j) == SubSeq(s, SliceBound(s, i) + 1, SliceBound(s, j))

\* s[i:]
From(s, i) == SubSeq(s, SliceBound(s, i) + 1, Len(s))

\* s[i], or "" past the end
At(s, i) == IF i >= 0 /\ i < Len(s) THEN s[i + 1] ELSE ""

\* s.startswith(p, i)
StartsAt(s, p, i) ==
    /\ i >= 0
    /\ i + Len(p) <= Len(s)
    /\ \A k \in 1..Len(p) : s[i + k] = p[k]

\* the offsets where p occurs in s
Occurrences(s, p) == {i \in 0..(Len(s) - Len(p)) : StartsAt(s, p, i)}

\* s.find(p, i): the lowest offset from i on, -1 when there is none
RECURSIVE FindFrom(_, _, _)
FindFrom(s, p, i) ==
    IF i + Len(p) > Len(s) THEN -1
    ELSE IF StartsAt(s, p, i) THEN i
    ELSE FindFrom(s, p, i + 1)

\* s.find(p)
Find(s, p) == FindFrom(s, p, 0)

\* re.finditer of a literal p from offset i on: the offsets of the matches,
\* which do not overlap
RECURSIVE FindAll(_, _, _)
FindAll(s, p, i) ==
    LET k == FindFrom(s, p, i)
    IN  IF k = -1 THEN {} ELSE {k} \cup FindAll(s, p, k + Len(p))

\* s.rfind(p) searched downwards from offset i: the highest offset, or -1
RECURSIVE RFindFrom(_, _, _)
RFindFrom(s, p, i) ==
    IF i < 0 THEN -1
    ELSE IF StartsAt(s, p, i) THEN i
    ELSE RFindFrom(s, p, i - 1)

\* s.rfind(p)
RFind(s, p) == RFindFrom(s, p, Len(s) - Len(p))

\* s.count(c)
Count(s, c) == Cardinality({i \in 1..Len(s) : s[i] = c})

\* c in s
Contains(s, c) == \E i \in 1..Len(s) : s[i] = c

\* the number of leading characters of s[i:] that belong to the class
RunLen(s, i, class) ==
    IF i >= Len(s) THEN 0
    ELSE CHOOSE n \in 0..(Len(s) - i) :
            /\ \A k \in 1..n : s[i + k] \in class
            /\ (i + n = Len(s) \/ s[i + n + 1] \notin class)

\* the number of trailing characters of s that belong to the class
RECURSIVE TrailLen(_, _)
TrailLen(s, class) ==
    IF s # <<>> /\ s[Len(s)] \in class
    THEN 1 + TrailLen(SubSeq(s, 1, Len(s) - 1), class) ELSE 0

\* s.strip(chars): leading and trailing characters of the set removed
StripChars(s, chars) ==
    LET lead == RunLen(s, 0, chars)
    IN  IF lead = Len(s) THEN <<>>
        ELSE SubSeq(s, lead + 1, Len(s) - TrailLen(s, chars))

SetMax(S) == CHOOSE m \in S : \A n \in S : n <= m

\* s.split('\n'): the offsets where the lines start, and the line at one
LineStarts(s) == {0} \cup {j \in 1..Len(s) : s[j] = NL}
RECURSIVE LineLen(_, _)
LineLen(s, i) == IF i < Len(s) /\ s[i + 1] # NL THEN 1 + LineLen(s, i + 1) ELSE 0
LineAt(s, b) == SubSeq(s, b + 1, b + LineLen(s, b))

-----------------------------------------------------------------------------
(* ContextDetector *)

\* class UrlContext
PLAIN_TEXT == "plain_text"
MARKDOWN_LINK == "markdown_link"
HTML_ATTRIBUTE == "html_attribute"
CODE_BLOCK == "code_block"
INLINE_CODE == "inline_code"

\* detect_inline_code_context: an odd number of backticks before pos
detect_inline_code_context(content, pos) ==
    Count(Slice(content, 0, pos), BT) % 2 = 1

\* detect_code_block_context: every line of content[:pos] whose stripped form
\* starts with three backticks toggles the flag
detect_code_block_context(content, pos) ==
    LET before == Slice(content, 0, pos)
        fences == {b \in LineStarts(before) :
                      StartsAt(StripChars(LineAt(before, b), SpaceChars), <<BT, BT, BT>>, 0)}
    IN  Cardinality(fences) % 2 = 1

\* detect_markdown_link_context: the nearest "](" before, the nearest ")"
\* after, and no newline from the one to the other
detect_markdown_link_context(content, start_pos, end_pos) ==
    LET bracket_pos == RFind(Slice(content, 0, start_pos), <<"]", "(">>)
        paren_pos == Find(From(content, end_pos), <<")">>)
    IN  /\ bracket_pos # -1
        /\ paren_pos # -1
        /\ ~Contains(Slice(content, bracket_pos, end_pos + paren_pos + 1), NL)

\* the three patterns name\s*=\s*["'] of url_attributes
UrlAttributes ==
    {<<"h", "r", "e", "f">>, <<"s", "r", "c">>, <<"a", "c", "t", "i", "o", "n">>}

\* s[i:] starts with the name, whatever the case of its letters
StartsAtIgnoreCase(s, name, i) ==
    /\ i + Len(name) <= Len(s)
    /\ \A k \in 1..Len(name) : Lower(s[i + k]) = name[k]

\* the end offset of a match of name\s*=\s*["'] that starts at i, or -1
AttrMatchEnd(s, name, i) ==
    LET eq == i + Len(name) + RunLen(s, i + Len(name), SpaceChars)
        q == eq + 1 + RunLen(s, eq + 1, SpaceChars)
    IN  IF StartsAtIgnoreCase(s, name, i) /\ At(s, eq) = "=" /\ At(s, q) \in {DQ, SQ}
        THEN q + 1 ELSE -1

\* detect_html_attribute_context: for some attribute, no quote between the
\* end of its last match in content[:start_pos] and start_pos
detect_html_attribute_context(content, start_pos) ==
    LET before == Slice(content, 0, start_pos)
    IN  \E name \in UrlAttributes :
            LET matches == {i \in 0..(Len(before) - 1) : AttrMatchEnd(before, name, i) # -1}
            IN  /\ matches # {}
                /\ LET attr_start == AttrMatchEnd(before, name, SetMax(matches))
                       text_to_check == Slice(content, attr_start, start_pos)
                   IN  ~Contains(text_to_check, DQ) /\ ~Contains(text_to_check, SQ)

\* get_url_context: inline code, code block, Markdown link, HTML attribute,
\* plain text, in this order
get_url_context(content, start_pos, end_pos) ==
    IF detect_inline_code_context(content, start_pos) THEN INLINE_CODE
    ELSE IF detect_code_block_context(content, start_pos) THEN CODE_BLOCK
    ELSE IF detect_markdown_link_context(content, start_pos, end_pos) THEN MARKDOWN_LINK
    ELSE IF detect_html_attribute_context(content, start_pos) THEN HTML_ATTRIBUTE
    ELSE PLAIN_TEXT

-----------------------------------------------------------------------------
(* RepoLinkParser *)

\* the literal https://github\.com/ of REPO_LINK_RE
UrlPrefix ==
    <<"h", "t", "t", "p", "s", ":", "/", "/", "g", "i", "t", "h", "u", "b", ".", "c", "o",
      "m", "/">>

\* a variant of RepoLinkMatchLen without the negative lookahead: the owner
\* and the repository take the longest runs of [\w.-]
RepoLinkMatchLenNoLookahead(text, p) ==
    IF ~StartsAt(text, UrlPrefix, p) THEN 0
    ELSE IF RunLen(text, p + Len(UrlPrefix), NameChars) = 0 THEN 0
    ELSE IF At(text, p + Len(UrlPrefix) + RunLen(text, p + Len(UrlPrefix), NameChars)) # "/"
    THEN 0
    ELSE IF RunLen(text, p + Len(UrlPrefix)
                           + RunLen(text, p + Len(UrlPrefix), NameChars) + 1,
                   NameChars) = 0
    THEN 0
    ELSE Len(UrlPrefix) + RunLen(text, p + Len(UrlPrefix), NameChars) + 1
           + RunLen(text, p + Len(UrlPrefix)
                             + RunLen(text, p + Len(UrlPrefix), NameChars) + 1,
                    NameChars)

\* REPO_LINK_RE tried at offset p, with the regex engine's backtracking: the
\* owner and then the repository take the longest run of [\w.-] that lets the
\* rest match ("/" after the owner, no [\w./-] after the repository).  The
\* length of the match, 0 when there is none.
RepoLinkMatchLen(text, p) ==
    IF ~StartsAt(text, UrlPrefix, p) THEN 0
    ELSE LET o0 == p + Len(UrlPrefix)
             tries == {t \in (1..RunLen(text, o0, NameChars)) \X (1..Len(text)) :
                          /\ At(text, o0 + t[1]) = "/"
                          /\ t[2] <= RunLen(text, o0 + t[1] + 1, NameChars)
                          /\ At(text, o0 + t[1] + 1 + t[2]) \notin PathChars}
         IN  IF tries = {} THEN 0
             ELSE LET ko == SetMax({t[1] : t \in tries})
                      kr == SetMax({t[2] : t \in {u \in tries : u[1] = ko}})
                  IN  Len(UrlPrefix) + ko + 1 + kr

\* s.split('/')
RECURSIVE SplitSlash(_)
SplitSlash(s) ==
    LET k == Find(s, <<"/">>)
    IN  IF k = -1 THEN <<s>> ELSE <<Slice(s, 0, k)>> \o SplitSlash(From(s, k + 1))

\* full_url.rstrip('/').split('/')
UrlParts(full_url) ==
    SplitSlash(SubSeq(full_url, 1, Len(full_url) - TrailLen(full_url, {"/"})))

\* finditer from offset p on: the non-overlapping matches, left to right
RECURSIVE ScanRepoLinks(_, _)
ScanRepoLinks(text, p) ==
    IF p >= Len(text) THEN {}
    ELSE LET n == RepoLinkMatchLen(text, p)
         IN  IF n = 0 THEN ScanRepoLinks(text, p + 1)
             ELSE LET full_url == Slice(text, p, p + n)
                      parts == UrlParts(full_url)
                  IN  (IF Len(parts) >= 5
                       THEN {[url |-> full_url, owner |-> parts[4], repo |-> parts[5]]}
                       ELSE {})
                      \cup ScanRepoLinks(text, p + n)

\* parse_repo_links: the set of (full_url, owner, repo)
parse_repo_links(text) == ScanRepoLinks(text, 0)

-----------------------------------------------------------------------------
(* RepoInfoFormatter *)

\* a failed fetch, and the dictionary of a successful one
None == <<>>
Some(stars, updated) == <<[stars |-> stars, updated |-> updated]>>

\* str(n) of a natural number
RECURSIVE DigitsOf(_)
DigitsOf(n) ==
    IF n < 10 THEN <<Digit[n + 1]>> ELSE DigitsOf(n \div 10) \o <<Digit[(n % 10) + 1]>>

\* int(s) of a run of digits
RECURSIVE NumberOf(_)
NumberOf(s) ==
    IF s = <<>> THEN 0
    ELSE 10 * NumberOf(SubSeq(s, 1, Len(s) - 1))
           + (CHOOSE d \in 0..9 : Digit[d + 1] = s[Len(s)])

\* a number in two digits, as %m and %d of strftime write it
Pad2(n) == <<Digit[(n \div 10) + 1], Digit[(n % 10) + 1]>>

DaysInMonth(y, m) ==
    IF m = 2 THEN (IF y % 4 = 0 /\ (y % 100 # 0 \/ y % 400 = 0) THEN 29 ELSE 28)
    ELSE IF m \in {4, 6, 9, 11} THEN 30 ELSE 31

\* the characters that follow the six fields of '%Y-%m-%dT%H:%M:%SZ'
Separators == <<"-", "-", "T", ":", ":", "Z">>

\* the widths the six fields can have: the year in four digits, the other
\* fields in one or two
FieldWidths == {w \in [1..6 -> 1..4] : w[1] = 4 /\ \A k \in 2..6 : w[k] \in 1..2}

\* the offset at which field k starts when the fields have the widths w
RECURSIVE FieldStart(_, _)
FieldStart(w, k) == IF k = 1 THEN 0 ELSE FieldStart(w, k - 1) + w[k - 1] + 1

\* u is six runs of digits of the widths w, each followed by its separator
FieldsMatch(u, w) ==
    /\ Len(u) = FieldStart(w, 6) + w[6] + 1
    /\ \A k \in 1..6 :
          /\ \A j \in 1..w[k] : u[FieldStart(w, k) + j] \in Digits
          /\ u[FieldStart(w, k) + w[k] + 1] = Separators[k]

\* the numbers of the six fields
FieldsOf(u, w) ==
    [k \in 1..6 |-> NumberOf(Slice(u, FieldStart(w, k), FieldStart(w, k) + w[k]))]

\* the fields are a date and a time of day that datetime accepts
ValidFields(f) ==
    /\ f[1] >= 1
    /\ f[2] \in 1..12
    /\ f[3] \in 1..DaysInMonth(f[1], f[2])
    /\ f[4] \in 0..23 /\ f[5] \in 0..59 /\ f[6] \in 0..59

DateOf(f) == IF ValidFields(f) THEN <<f[1], f[2], f[3]>> ELSE <<>>

\* datetime.strptime(updated, '%Y-%m-%dT%H:%M:%SZ'): the parsed
\* <<year, month, day>>, or <<>> when strptime raises
ParseTimestamp(u) ==
    LET ws == {w \in FieldWidths : FieldsMatch(u, w)}
    IN  IF ws = {} THEN <<>> ELSE DateOf(FieldsOf(u, CHOOSE w \in ws : TRUE))

\* .strftime('%Y-%m-%d') of a parsed timestamp
FormatDate(t) == DigitsOf(t[1]) \o <<"-">> \o Pad2(t[2]) \o <<"-">> \o Pad2(t[3])

\* updated as format_info writes it: reformatted when it is not empty and
\* strptime parses it, else as it is
Reformat(u, t) == IF u # <<>> /\ t # <<>> THEN FormatDate(t) ELSE u

FormatUpdated(u) == Reformat(u, ParseTimestamp(u))

\* format_info
format_info(info) ==
    IF info = None THEN <<>>
    ELSE <<"(", STAR, SP>> \o DigitsOf(info[1].stars) \o <<",", SP, CLOCK, SP>>
             \o FormatUpdated(info[1].updated) \o <<")">> \o REPO_INFO_MARK

-----------------------------------------------------------------------------
(* RepoInfoProcessor *)

\* re.finditer(re.escape(full_url), content) with the context of each match:
\* the UrlMatch records of one link
MatchesOfLink(content, link) ==
    {[start_pos |-> i, end_pos |-> i + Len(link.url), url |-> link.url,
      owner |-> link.owner, repo |-> link.repo,
      context |-> get_url_context(content, i, i + Len(link.url))] :
        i \in FindAll(content, link.url, 0)}

\* sorted(url_matches, key=start_pos, reverse=True): the sort is stable, so
\* matches with the same start_pos stay in the order of the links, rank
RECURSIVE SortMatches(_, _)
SortMatches(matches, rank) ==
    IF matches = {} THEN <<>>
    ELSE LET top == SetMax({m.start_pos : m \in matches})
             tied == {m \in matches : m.start_pos = top}
             first == CHOOSE m \in tied : \A n \in tied : rank[m.url] <= rank[n.url]
         IN  <<first>> \o SortMatches(matches \ {first}, rank)

\* the orders in which list(links) can enumerate the set of links
LinkOrders(links) ==
    LET urls == {l.url : l \in links}
    IN  {r \in [urls -> 1..Cardinality(urls)] : \A u, v \in urls : u # v => r[u] # r[v]}

\* find_url_matches for one order of the links
find_url_matches(content, links, rank) ==
    SortMatches(UNION {MatchesOfLink(content, l) : l \in links}, rank)

\* should_process_url
SkipContexts == {CODE_BLOCK, INLINE_CODE, HTML_ATTRIBUTE}
should_process_url(url_match) == url_match.context \notin SkipContexts

\* a variant of AnnotationLen that leaves the marker out of the span (the
\* pattern without its last group)
AnnotationLenNoMarker(r, k) ==
    LET close == Find(From(r, k + 2), <<")">>)
    IN  IF /\ At(r, k) = "(" /\ At(r, k + 1) = STAR /\ close # -1
           /\ ~Contains(Slice(r, k + 2, k + 2 + close), NL)
        THEN k + 2 + close + 1
        ELSE 0

\* the length of the match of \s*\(STAR.*?\)(?:MARK)? at the start of r, whose
\* leading run of spaces has the length k; 0 when there is none
AnnotationLen(r, k) ==
    LET close == Find(From(r, k + 2), <<")">>)
    IN  IF /\ At(r, k) = "(" /\ At(r, k + 1) = STAR /\ close # -1
           /\ ~Contains(Slice(r, k + 2, k + 2 + close), NL)
        THEN k + 2 + close + 1
               + (IF StartsAt(r, REPO_INFO_MARK, k + 2 + close + 1)
                  THEN Len(REPO_INFO_MARK) ELSE 0)
        ELSE 0

\* extract_existing_info: the length of the match at content[url_end_pos:],
\* 0 when there is none
extract_existing_info(content, url_end_pos) ==
    AnnotationLen(From(content, url_end_pos),
                  RunLen(From(content, url_end_pos), 0, SpaceChars))

\* info_str.strip('()')
StripParens(info_str) == StripChars(info_str, {"(", ")"})

\* _process_markdown_link once the link text and the closing parenthesis
\* are located: <<new content, was_updated>>
MarkdownLinkEdit(content, url_match, info_str, bracket_pos, text_start, paren_pos) ==
    IF /\ text_start > 0 /\ paren_pos # -1
       /\ ~Contains(Slice(content, text_start, bracket_pos), STAR)
    THEN <<Slice(content, 0, text_start)
             \o Slice(content, text_start, bracket_pos) \o <<SP>> \o StripParens(info_str)
             \o Slice(content, bracket_pos, url_match.end_pos + paren_pos + 1)
             \o From(content, url_match.end_pos + paren_pos + 1), TRUE>>
    ELSE <<content, FALSE>>

\* before_content.rfind('[', 0, bracket_pos) + 1
TextStart(before_content, bracket_pos) ==
    RFind(Slice(before_content, 0, bracket_pos), <<"[">>) + 1

\* _process_markdown_link with the formatted info
MarkdownLink(content, url_match, info_str, bracket_pos) ==
    IF info_str = <<>> THEN <<content, FALSE>>
    ELSE MarkdownLinkEdit(content, url_match, info_str, bracket_pos,
             TextStart(Slice(content, 0, url_match.start_pos), bracket_pos),
             Find(From(content, url_match.end_pos), <<")">>))

\* _process_markdown_link, given what fetch returned:
\* <<new content, was_updated>>
process_markdown_link(content, url_match, info) ==
    MarkdownLink(content, url_match, format_info(info),
                 RFind(Slice(content, 0, url_match.start_pos), <<"]", "(">>))

\* the second component of what _process_plain_text_url returns when an
\* annotation follows the URL
PlainReplaceFlag(info_str) == info_str # <<>>

\* _process_plain_text_url with the formatted info and the length of the
\* annotation that follows the URL
PlainTextEdit(content, url_match, info_str, existing_length) ==
    IF existing_length > 0
    THEN <<Slice(content, 0, url_match.start_pos)
             \o (IF info_str # <<>> THEN url_match.url \o <<SP>> \o info_str
                 ELSE url_match.url)
             \o From(content, url_match.end_pos + existing_length),
           PlainReplaceFlag(info_str)>>
    ELSE IF info_str # <<>>
    THEN <<Slice(content, 0, url_match.end_pos) \o <<SP>> \o info_str
             \o From(content, url_match.end_pos), TRUE>>
    ELSE <<content, FALSE>>

\* _process_plain_text_url, given what fetch returned
process_plain_text_url(content, url_match, info) ==
    PlainTextEdit(content, url_match, format_info(info),
                  extract_existing_info(content, url_match.end_pos))

\* process_url_match, given what fetch returned
process_url_match(content, url_match, info) ==
    IF ~should_process_url(url_match) THEN <<content, FALSE>>
    ELSE IF url_match.context = MARKDOWN_LINK
    THEN process_markdown_link(content, url_match, info)
    ELSE process_plain_text_url(content, url_match, info)

-----------------------------------------------------------------------------
(* RepoInfoFetcher *)

\* cache_key = f"{owner}/{repo}"
CacheKey(owner, repo) == owner \o <<"/">> \o repo

\* a variant of CacheHit that takes a cached failure for a miss
CacheHitOnSuccess(c, key) == key \in DOMAIN c /\ c[key] # None

\* cache_key in self._cache
CacheHit(c, key) == key \in DOMAIN c

\* self._cache[cache_key] = result
CachePut(c, key, result) ==
    [k \in DOMAIN c \cup {key} |-> IF k = key THEN result ELSE c[k]]

\* what the metadata source answers for a repository: its entry, and a
\* failure (404) for a repository it does not know
Respond(up, key) == IF key \in DOMAIN up THEN up[key] ELSE None

-----------------------------------------------------------------------------
(* The documents and the metadata source the runs start from *)

\* https://github.com/a/w
RepoUrl == UrlPrefix \o <<"a", "/", "w">>

\* a timestamp as the API gives it, and one whose month and day are unpadded
Stamp ==
    <<"2", "0", "2", "4", "-", "0", "1", "-", "0", "2", "T", "0", "3", ":", "0", "4", ":",
      "0", "5", "Z">>
StampUnpadded ==
    <<"2", "0", "2", "4", "-", "1", "-", "2", "T", "0", "3", ":", "0", "4", ":", "0", "5",
      "Z">>

\* what the metadata source can answer for a repository
Responses == {None, Some(42, StampUnpadded)}

\* an annotation a former run wrote for 42 stars, and one of a release
\* that wrote no marker
MarkedAnnotation == <<SP>> \o format_info(Some(42, Stamp))
LegacyAnnotation == <<SP, "(", STAR, SP, "7", ")">>

\* <a href="https://github.com/a/w">
HrefOpen == <<"h", "r", "e", "f", "=", DQ>>

\* the pieces an initial document is made of
Vocabulary ==
    { RepoUrl, <<SP>>, <<NL>>, <<BT>>, <<BT, BT, BT>>,
      <<"[", "x", "]", "(">>, <<")">>, <<"[", "x", "]", "(", "y", ")">>,
      HrefOpen \o RepoUrl \o <<DQ>>, HrefOpen,
      <<"-", "x">>, <<"/", "x">>,
      MarkedAnnotation, LegacyAnnotation, <<"(", STAR>>, <<"x">> }

\* the pieces that hold a repository URL
UrlPieces == {f \in Vocabulary : Occurrences(f, UrlPrefix) # {}}

\* the sequences of n pieces, as documents; those of withUrl hold a URL piece
RECURSIVE DocsOfLen(_, _)
DocsOfLen(n, withUrl) ==
    IF n = 0 THEN (IF withUrl THEN {} ELSE {<<>>})
    ELSE {d \o f : d \in DocsOfLen(n - 1, FALSE), f \in UrlPieces}
         \cup {d \o f : d \in DocsOfLen(n - 1, withUrl), f \in Vocabulary \ UrlPieces}

\* a repository twice, and a repository whose URL starts with the URL of
\* the first: U U U-x
SharedPrefixDoc == RepoUrl \o <<SP>> \o RepoUrl \o <<SP>> \o RepoUrl \o <<"-", "x">>

\* https://github.com/b/v, a second repository
OtherUrl == UrlPrefix \o <<"b", "/", "v">>

\* documents that name two repositories: U V, V U U, U (STAR 7) V, and
\* U (STAR V U, where an annotation was opened and not closed
TwoRepoDocs ==
    { RepoUrl \o <<SP>> \o OtherUrl,
      OtherUrl \o <<NL>> \o RepoUrl \o <<SP>> \o RepoUrl,
      RepoUrl \o LegacyAnnotation \o <<SP>> \o OtherUrl,
      RepoUrl \o <<SP, "(", STAR, SP>> \o OtherUrl \o <<SP>> \o RepoUrl }

\* the initial documents: every document of up to MaxFrags pieces that holds
\* a URL piece, the empty document, one of plain words, SharedPrefixDoc and
\* TwoRepoDocs
Docs ==
    UNION {DocsOfLen(n, TRUE) : n \in 0..MaxFrags}
        \cup {<<>>, <<"x", SP, "x">>, SharedPrefixDoc} \cup TwoRepoDocs

\* the owner/repo keys of the links of a document
KeysOf(doc) == {CacheKey(l.owner, l.repo) : l \in parse_repo_links(doc)}

NoCache == [k \in {} |-> None]

-----------------------------------------------------------------------------
(* The state *)

VARIABLES
    disk,             \* "ok", "missing" or "unreadable": the file at README_PATH
    file,             \* the content of the file
    upstream,         \* the metadata source: owner/repo key -> response
    run,              \* the number of the current run of the program
    pc,               \* where the run is: start, process, returned, exit
    content,          \* update_readme: the content read
    updated_content,  \* update_readme: the content being rewritten
    url_matches,      \* update_readme: the matches still to process
    updated_links,    \* update_readme: the URLs recorded as updated
    cache,            \* RepoInfoFetcher._cache
    fetch_log,        \* the calls of fetch in this run: key, result, requested
    writes,           \* how often this run opened the file for writing
    returned,         \* what update_readme returned
    published,        \* main went on to the git operations
    outcome,          \* the path this run's update_readme took
    all_matches,      \* what find_url_matches returned in this run
    last,             \* the last process_url_match call: arguments and result
    prev_outcome      \* the outcome of the run before this one

vars == <<disk, file, upstream, run, pc, content, updated_content, url_matches,
          updated_links, cache, fetch_log, writes, returned, published, outcome,
          all_matches, last, prev_outcome>>

Init ==
    /\ \E d \in {"ok", "missing", "unreadable"} :
          /\ disk = d
          /\ \E doc \in (IF d = "ok" THEN Docs ELSE {<<>>}) :
                /\ file = doc
                /\ upstream \in [KeysOf(doc) -> Responses]
    /\ run = 1
    /\ pc = "start"
    /\ content = <<>>
    /\ updated_content = <<>>
    /\ url_matches = <<>>
    /\ updated_links = <<>>
    /\ cache = NoCache
    /\ fetch_log = <<>>
    /\ writes = 0
    /\ returned = <<>>
    /\ published = FALSE
    /\ outcome = ""
    /\ all_matches = <<>>
    /\ last = <<>>
    /\ prev_outcome = ""

-----------------------------------------------------------------------------
(* update_readme and main, step by step *)

\* update_readme returns without having processed anything
ReturnEarly(why) ==
    /\ pc' = "returned"
    /\ outcome' = why
    /\ returned' = <<>>
    /\ UNCHANGED <<disk, file, upstream, run, updated_content, url_matches,
                   updated_links, cache, fetch_log, writes, published,
                   all_matches, last, prev_outcome>>

\* update_readme up to the loop: the file is looked up and read, the links
\* are parsed, the matches are found and sorted
ReadAndFindMatches ==
    /\ pc = "start"
    /\ \/ /\ disk = "missing"
          /\ content' = content
          /\ ReturnEarly("not_found")
       \/ /\ disk = "unreadable"
          /\ content' = content
          /\ ReturnEarly("read_error")
       \/ /\ disk = "ok"
          /\ parse_repo_links(file) = {}
          /\ content' = file
          /\ ReturnEarly("no_links")
       \/ /\ disk = "ok"
          /\ parse_repo_links(file) # {}
          /\ content' = file
          /\ \E rank \in LinkOrders(parse_repo_links(file)) :
                /\ url_matches' = find_url_matches(file, parse_repo_links(file), rank)
                /\ all_matches' = url_matches'
          /\ updated_content' = file
          /\ updated_links' = <<>>
          /\ pc' = "process"
          /\ UNCHANGED <<disk, file, upstream, run, cache, fetch_log, writes,
                         returned, published, outcome, last, prev_outcome>>

\* what fetch returns for a match: the cached result, else the answer of the
\* metadata source; None stands in when the match is skipped and fetch is
\* not called
FetchResult(url_match) ==
    IF ~should_process_url(url_match) THEN None
    ELSE IF CacheHit(cache, CacheKey(url_match.owner, url_match.repo))
    THEN cache[CacheKey(url_match.owner, url_match.repo)]
    ELSE Respond(upstream, CacheKey(url_match.owner, url_match.repo))

\* the loop body for the match url_match, whose fetch (if made) returned info
\* and whose process_url_match returned res
LoopBody(url_match, key, info, res) ==
    /\ cache' = IF should_process_url(url_match) /\ ~CacheHit(cache, key)
                THEN CachePut(cache, key, info) ELSE cache
    /\ fetch_log' = IF should_process_url(url_match)
                    THEN Append(fetch_log, [key |-> key, result |-> info,
                                            requested |-> ~CacheHit(cache, key)])
                    ELSE fetch_log
    /\ updated_content' = IF res[2] THEN res[1] ELSE updated_content
    /\ updated_links' = IF res[2] THEN Append(updated_links, url_match.url)
                        ELSE updated_links
    /\ last' = <<[url_match |-> url_match, before |-> updated_content,
                  fetched |-> should_process_url(url_match), info |-> info,
                  new_content |-> res[1], was_updated |-> res[2]]>>

\* one iteration of the loop over url_matches: process_url_match, with the
\* fetch it makes, and the bookkeeping of update_readme
ProcessUrlMatch ==
    /\ pc = "process"
    /\ url_matches # <<>>
    /\ LoopBody(Head(url_matches),
                CacheKey(Head(url_matches).owner, Head(url_matches).repo),
                FetchResult(Head(url_matches)),
                process_url_match(updated_content, Head(url_matches),
                                  FetchResult(Head(url_matches))))
    /\ url_matches' = Tail(url_matches)
    /\ UNCHANGED <<disk, file, upstream, run, pc, content, writes, returned,
                   published, outcome, all_matches, prev_outcome>>

\* the loop of update_readme as a whole, for a metadata source that answers
\* the same all through the run: the final updated_content
RECURSIVE RunLoop(_, _, _)
RunLoop(matches, text, up) ==
    IF matches = <<>> THEN text
    ELSE RunLoop(Tail(matches),
                 IF process_url_match(text, Head(matches),
                        IF should_process_url(Head(matches))
                        THEN Respond(up, CacheKey(Head(matches).owner, Head(matches).repo))
                        ELSE None)[2]
                 THEN process_url_match(text, Head(matches),
                          Respond(up, CacheKey(Head(matches).owner, Head(matches).repo)))[1]
                 ELSE text,
                 up)

\* a variant of ShouldWrite that writes whatever the content is
WriteAlways(new, old) == TRUE

\* a variant of ReturnedOnWriteError that returns the links gathered so far
ReturnsLinksOnWriteError(links) == links

\* the condition under which update_readme writes the file
ShouldWrite(new, old) == new # old

\* what update_readme returns when writing the file raised
ReturnedOnWriteError(links) == <<>>

\* the end of update_readme: the file is written if the content changed
WriteBack ==
    /\ pc = "process"
    /\ url_matches = <<>>
    /\ pc' = "returned"
    /\ \/ /\ ShouldWrite(updated_content, content)
          /\ file' = updated_content
          /\ writes' = writes + 1
          /\ returned' = updated_links
          /\ outcome' = "written"
       \/ /\ ShouldWrite(updated_content, content)
          \* open() or write() raised: the file is as it was, or truncated
          /\ file' \in {file, <<>>}
          /\ writes' = writes + 1
          /\ returned' = ReturnedOnWriteError(updated_links)
          /\ outcome' = "write_error"
       \/ /\ ~ShouldWrite(updated_content, content)
          /\ file' = file
          /\ writes' = writes
          /\ returned' = updated_links
          /\ outcome' = "unchanged"
    /\ UNCHANGED <<disk, upstream, run, content, updated_content, url_matches,
                   updated_links, cache, fetch_log, published, all_matches, last,
                   prev_outcome>>

\* main: "if not updated_links: return"
MainSkipsGit ==
    /\ pc = "returned"
    /\ returned = <<>>
    /\ pc' = "exit"
    /\ UNCHANGED <<disk, file, upstream, run, content, updated_content,
                   url_matches, updated_links, cache, fetch_log, writes, returned,
                   published, outcome, all_matches, last, prev_outcome>>

\* main: the git operations (commit and push, or branch and pull request)
MainPublishes ==
    /\ pc = "returned"
    /\ returned # <<>>
    /\ published' = TRUE
    /\ pc' = "exit"
    /\ UNCHANGED <<disk, file, upstream, run, content, updated_content,
                   url_matches, updated_links, cache, fetch_log, writes, returned,
                   outcome, all_matches, last, prev_outcome>>

\* the program is started again on the same file: a new process, so a new
\* ReadmeUpdater with an empty cache
RunAgain ==
    /\ pc = "exit"
    /\ run < MaxRuns
    /\ outcome \in {"written", "unchanged", "no_links"}
    /\ run' = run + 1
    /\ pc' = "start"
    /\ prev_outcome' = outcome
    /\ content' = <<>>
    /\ updated_content' = <<>>
    /\ url_matches' = <<>>
    /\ updated_links' = <<>>
    /\ cache' = NoCache
    /\ fetch_log' = <<>>
    /\ writes' = 0
    /\ returned' = <<>>
    /\ published' = FALSE
    /\ outcome' = ""
    /\ all_matches' = <<>>
    /\ last' = <<>>
    /\ UNCHANGED <<disk, file, upstream>>

Next ==
    \/ ReadAndFindMatches
    \/ ProcessUrlMatch
    \/ WriteBack
    \/ MainSkipsGit
    \/ MainPublishes
    \/ RunAgain

Spec == Init /\ [][Next]_vars

\* the metadata source changes its answer for a repository while a run is
\* processing: the stars change, the API starts or stops failing
UpstreamChanges ==
    /\ pc = "process"
    /\ \E k \in DOMAIN upstream :
          \E r \in Responses \ {upstream[k]} :
              upstream' = [upstream EXCEPT ![k] = r]
    /\ UNCHANGED <<disk, file, run, pc, content, updated_content, url_matches,
                   updated_links, cache, fetch_log, writes, returned, published,
                   outcome, all_matches, last, prev_outcome>>

NextFlaky ==
    \/ Next
    \/ UpstreamChanges

\* the runs against a metadata source that may change under them
SpecFlaky == Init /\ [][NextFlaky]_vars

-----------------------------------------------------------------------------
(* What the properties below speak of *)

\* update_readme has returned
Finished == pc \in {"returned", "exit"}

\* update_readme went through its loop and past the write without an error
Completed == Finished /\ outcome \in {"written", "unchanged"}

\* the owner/repo key of a match, and of a URL
KeyOf(m) == CacheKey(m.owner, m.repo)
KeyOfUrl(url) == CacheKey(UrlParts(url)[4], UrlParts(url)[5])

\* the annotation of a successful fetch as it is to be read: "(", the star
\* glyph, the stars, the clock glyph, the date, ")" and the marker; and the
\* same without its two parentheses
Fresh(info) ==
    <<"(", STAR, SP>> \o DigitsOf(info[1].stars) \o <<",", SP, CLOCK, SP>>
        \o FormatUpdated(info[1].updated) \o <<")">> \o REPO_INFO_MARK
Bare(info) ==
    <<STAR, SP>> \o DigitsOf(info[1].stars) \o <<",", SP, CLOCK, SP>>
        \o FormatUpdated(info[1].updated) \o REPO_INFO_MARK

\* the numbers k of whitespace characters at offset p of s after which "("
\* and the star glyph stand
AnnotationStarts(s, p) ==
    {k \in 0..(Len(s) - p) :
        /\ \A j \in 0..(k - 1) : At(s, p + j) \in SpaceChars
        /\ At(s, p + k) = "("
        /\ At(s, p + k + 1) = STAR}

\* the numbers b of characters at offset q of s, none of them ")" or a
\* newline, after which ")" stands
AnnotationBodies(s, q) ==
    {b \in 0..(Len(s) - q) :
        /\ \A j \in 0..(b - 1) : At(s, q + j) \notin {")", NL}
        /\ At(s, q + b) = ")"}

\* the length of the annotation span at offset p of s: whitespace, an
\* annotation with or without marker behind it; 0 when no annotation stands
\* there
OldSpan(s, p) ==
    IF AnnotationStarts(s, p) = {} THEN 0
    ELSE LET q == p + 2 + CHOOSE k \in AnnotationStarts(s, p) : TRUE
         IN  IF AnnotationBodies(s, q) = {} THEN 0
             ELSE LET e == q + 1 + CHOOSE b \in AnnotationBodies(s, q) : TRUE
                  IN  (e - p) + (IF StartsAt(s, REPO_INFO_MARK, e)
                                 THEN Len(REPO_INFO_MARK) ELSE 0)

\* the loop has just processed a match whose span in the text it was given
\* still holds the URL
ProcessedOccurrence ==
    /\ last # <<>>
    /\ Slice(last[1].before, last[1].url_match.start_pos, last[1].url_match.end_pos)
         = last[1].url_match.url

\* offset p of s is the start of the value of an href="..." attribute
InsideHrefValue(s, p) ==
    /\ p >= Len(HrefOpen)
    /\ Slice(s, p - Len(HrefOpen), p) = HrefOpen

\* the repository URLs of a text, as <<offset, length>>, from offset p on
RECURSIVE LinkOffsets(_, _)
LinkOffsets(text, p) ==
    IF p >= Len(text) THEN {}
    ELSE IF RepoLinkMatchLen(text, p) = 0 THEN LinkOffsets(text, p + 1)
    ELSE {<<p, RepoLinkMatchLen(text, p)>>}
             \cup LinkOffsets(text, p + RepoLinkMatchLen(text, p))

\* the text from offset p on with a space and the annotation of its
\* repository behind every repository URL
RECURSIVE AnnotateAll(_, _, _)
AnnotateAll(text, p, up) ==
    IF p >= Len(text) THEN <<>>
    ELSE IF RepoLinkMatchLen(text, p) = 0
    THEN <<text[p + 1]>> \o AnnotateAll(text, p + 1, up)
    ELSE Slice(text, p, p + RepoLinkMatchLen(text, p)) \o <<SP>>
             \o Fresh(up[KeyOfUrl(Slice(text, p, p + RepoLinkMatchLen(text, p)))])
             \o AnnotateAll(text, p + RepoLinkMatchLen(text, p), up)

-----------------------------------------------------------------------------
(* The properties *)

\* C1: idempotence.  When the program is run again on the file a run left,
\* against a metadata source that answers as before, the second run makes
\* no edit: the file it leaves is the content it read.
C1_SecondRunChangesNothing ==
    (run > 1 /\ Finished /\ outcome # "write_error") => file = content

\* C2: failure strip.  In a document with one occurrence of a repository
\* URL, a plain-text one that an annotation follows and whose fetch fails,
\* the file after update_readme holds the bare URL: the annotation span is
\* gone and the rest of the text is as it was read.
C2_FailureStripsAnnotation ==
    (Completed /\ Len(all_matches) = 1) =>
        LET m == all_matches[1]
        IN  (/\ m.context = PLAIN_TEXT
             /\ Respond(upstream, KeyOf(m)) = None
             /\ OldSpan(content, m.end_pos) > 0)
            => file = Slice(content, 0, m.end_pos)
                        \o From(content, m.end_pos + OldSpan(content, m.end_pos))

\* C3: context exclusion.  Processing an occurrence that lies in a fenced
\* code block, in inline code or in the value of an href attribute leaves
\* the text as it was.
C3_ExcludedContextsUntouched ==
    (/\ ProcessedOccurrence
     /\ \/ detect_code_block_context(last[1].before, last[1].url_match.start_pos)
        \/ detect_inline_code_context(last[1].before, last[1].url_match.start_pos)
        \/ InsideHrefValue(last[1].before, last[1].url_match.start_pos))
    => last[1].new_content = last[1].before

\* C4: Markdown link enrichment.  For an occurrence [text](URL) in
\* Markdown-link context whose text holds no star glyph and whose fetch
\* succeeds, the new text is the old one with a space and the annotation
\* without its parentheses put in before "](": the link text becomes
\* "text STAR stars, CLOCK date" and the marker, and nothing else changes.
C4_MarkdownLinkEnriched ==
    ProcessedOccurrence =>
        LET s == last[1].before
            m == last[1].url_match
            bracket_pos == m.start_pos - 2
            text_start == RFind(Slice(s, 0, bracket_pos), <<"[">>) + 1
        IN  (/\ m.context = MARKDOWN_LINK
             /\ bracket_pos >= 0
             /\ Slice(s, bracket_pos, m.start_pos) = <<"]", "(">>
             /\ At(s, m.end_pos) = ")"
             /\ text_start > 0
             /\ ~Contains(Slice(s, text_start, bracket_pos), STAR)
             /\ last[1].info # None)
            => last[1].new_content
                 = Slice(s, 0, bracket_pos) \o <<SP>> \o Bare(last[1].info)
                     \o From(s, bracket_pos)

\* the case of C5: a plain-text occurrence whose fetch succeeded
C5_Case ==
    /\ ProcessedOccurrence
    /\ last[1].fetched
    /\ last[1].url_match.context = PLAIN_TEXT
    /\ last[1].info # None

\* C5: plain-text annotation and replacement.  For a plain-text occurrence
\* whose fetch succeeds, the new text is the old one up to the end of the
\* URL, one space, the fresh annotation with its marker, and the old text
\* from behind the old annotation span on (from behind the URL when no
\* annotation followed it).
C5_PlainTextAnnotated ==
    C5_Case =>
        last[1].new_content
          = Slice(last[1].before, 0, last[1].url_match.end_pos)
              \o <<SP>> \o Fresh(last[1].info)
              \o From(last[1].before,
                      last[1].url_match.end_pos
                        + OldSpan(last[1].before, last[1].url_match.end_pos))

\* a marker-tagged annotation behind a plain-text occurrence was replaced
C5_ReplacedMarkedAnnotation ==
    /\ C5_Case
    /\ OldSpan(last[1].before, last[1].url_match.end_pos) > Len(REPO_INFO_MARK)
    /\ StartsAt(last[1].before, REPO_INFO_MARK,
                last[1].url_match.end_pos
                  + OldSpan(last[1].before, last[1].url_match.end_pos)
                  - Len(REPO_INFO_MARK))
    /\ last[1].new_content # last[1].before

\* the case of C6: every repository URL of the content is plain text with no
\* annotation behind it and is fetched with success, and one URL stands at
\* two offsets
C6_Case ==
    /\ \A o \in LinkOffsets(content, 0) :
          /\ get_url_context(content, o[1], o[1] + o[2]) = PLAIN_TEXT
          /\ OldSpan(content, o[1] + o[2]) = 0
          /\ Respond(upstream, KeyOfUrl(Slice(content, o[1], o[1] + o[2]))) # None
    /\ \E a, b \in LinkOffsets(content, 0) :
          /\ a[1] # b[1]
          /\ Slice(content, a[1], a[1] + a[2]) = Slice(content, b[1], b[1] + b[2])

\* C6: duplicate URL handling.  When a repository URL stands twice or more
\* in the document as plain text and the fetches succeed, the file after
\* update_readme is the content read with the annotation behind every
\* occurrence, and nothing else changed.
C6_EveryOccurrenceAnnotated ==
    (Completed /\ C6_Case) => file = AnnotateAll(content, 0, upstream)

\* C7: fetch cache.  Of two calls of fetch for the same key in one run, the
\* later one issues no request and returns what the earlier one returned:
\* so at most one request per key, and a failure stays a failure.
C7_OneRequestPerKey ==
    \A i, j \in 1..Len(fetch_log) :
        (i < j /\ fetch_log[i].key = fetch_log[j].key)
        => /\ ~fetch_log[j].requested
           /\ fetch_log[j].result = fetch_log[i].result

\* a second call for a key whose first call failed, made when the metadata
\* source would answer with success
C7_FailureNotRetried ==
    \E i, j \in 1..Len(fetch_log) :
        /\ i < j
        /\ fetch_log[i].key = fetch_log[j].key
        /\ fetch_log[i].requested
        /\ fetch_log[j].result = None
        /\ Respond(upstream, fetch_log[j].key) # None
        /\ url_matches = <<>>

\* C8: a URL is recorded as updated only when its processing changed the
\* text, so main publishes only in a run that changed the document.
C8_PublishesOnlyOnChange ==
    /\ (last # <<>> /\ last[1].was_updated) => last[1].new_content # last[1].before
    /\ published => updated_content # content

\* C9: a run writes the file at most once, only after the loop and only
\* when the final content differs from the content read; when they are
\* equal the file stays as it was read.
C9_WritesOnceOnlyOnChange ==
    /\ writes <= 1
    /\ writes = 1 => (Finished /\ updated_content # content)
    /\ (Finished /\ all_matches # <<>> /\ updated_content = content)
       => (writes = 0 /\ file = content)

\* a run that processed matches, recorded an update and left the file alone
C9_NothingToWrite ==
    /\ Finished
    /\ outcome = "unchanged"
    /\ updated_links # <<>>
    /\ writes = 0

\* C10: file errors.  A missing or unreadable file, or a failed write, ends
\* update_readme with the empty list and main without publishing; for a
\* missing or unreadable file no request is made and nothing is written.
C10_FileErrorsEndQuietly ==
    /\ outcome \in {"not_found", "read_error", "write_error"}
       => (Finished /\ returned = <<>> /\ ~published)
    /\ disk # "ok"
       => /\ fetch_log = <<>> /\ writes = 0 /\ file = <<>>
          /\ pc \in {"start", "returned", "exit"}
          /\ Finished => outcome \in {"not_found", "read_error"}

\* main has ended after a write failed in a run that had recorded updates
C10_WriteFailedAfterUpdates ==
    /\ outcome = "write_error"
    /\ updated_links # <<>>
    /\ pc = "exit"

\* the metadata source up with every failure turned into a success
WithoutFailures(up) ==
    [k \in DOMAIN up |-> IF up[k] = None THEN Some(42, StampUnpadded) ELSE up[k]]

\* the number of places of text s where an occurrence of the URL is followed
\* by a space and the annotation of info
AnnotatedCount(s, url, info) ==
    Cardinality(Occurrences(s, url \o <<SP>> \o Fresh(info)))

\* C11: failure isolation.  When fetches fail in a run, every repository
\* whose fetch succeeds is annotated as in the run in which no fetch fails:
\* in the final content its URL is followed by its annotation at as many
\* places as in the final content of the run on the same matches against
\* the metadata source without the failures.
C11_FailureIsolated ==
    Completed =>
        \A i \in 1..Len(all_matches) :
            Respond(upstream, KeyOf(all_matches[i])) # None
            => AnnotatedCount(updated_content, all_matches[i].url,
                              Respond(upstream, KeyOf(all_matches[i])))
                 = AnnotatedCount(RunLoop(all_matches, content, WithoutFailures(upstream)),
                                  all_matches[i].url,
                                  Respond(upstream, KeyOf(all_matches[i])))

\* the length of the owner/repo token that stands at offset q of the text:
\* the longest run of [\w.-], and behind a "/" the next such run
TokenLen(text, q) ==
    IF At(text, q + RunLen(text, q, NameChars)) = "/"
    THEN RunLen(text, q, NameChars) + 1
           + RunLen(text, q + RunLen(text, q, NameChars) + 1, NameChars)
    ELSE RunLen(text, q, NameChars)

\* the offset behind the owner/repo token of the GitHub URL at offset p
TokenEnd(text, p) == p + Len(UrlPrefix) + TokenLen(text, p + Len(UrlPrefix))

\* C12: excluded subpath.  Every URL parse_repo_links returns stands
\* somewhere in the text as a GitHub URL with its whole owner/repo token and
\* with no path-segment character behind it; and a text in which every
\* GitHub URL goes on with "/" behind its owner/repo token yields no
\* reference.
C12_NoSubpathReference ==
    /\ \A l \in parse_repo_links(file) :
          \E p \in Occurrences(file, UrlPrefix) :
              /\ l.url = Slice(file, p, TokenEnd(file, p))
              /\ At(file, TokenEnd(file, p)) \notin PathChars
    /\ (\A p \in Occurrences(file, UrlPrefix) : At(file, TokenEnd(file, p)) = "/")
       => parse_repo_links(file) = {}

\* update_readme found no link in a file that holds a GitHub URL with a
\* subpath
C12_SubpathOnly ==
    /\ Finished
    /\ outcome = "no_links"
    /\ \E p \in Occurrences(content, UrlPrefix) :
          /\ TokenEnd(content, p) > p + Len(UrlPrefix) + 2
          /\ At(content, TokenEnd(content, p)) = "/"

\* the matches of this run are in strictly decreasing order of start_pos and
\* no two of their spans overlap
MatchesApart ==
    \A i, j \in 1..Len(all_matches) :
        i < j => all_matches[i].start_pos >= all_matches[j].end_pos

\* the match the loop processes next still has its URL at its span of the
\* current text
NextSpanValid ==
    (pc = "process" /\ url_matches # <<>>)
    => Slice(updated_content, Head(url_matches).start_pos, Head(url_matches).end_pos)
         = Head(url_matches).url

\* C13: the reverse-offset order keeps the offsets valid.  The matches
\* find_url_matches returns have strictly decreasing start offsets and spans
\* that do not overlap, and when the loop comes to a match the current text
\* at its span is still its URL.
C13_OffsetsStayValid == MatchesApart /\ NextSpanValid

\* the offset of the last "](" before offset p of s, -1 when there is none
LinkOpenBefore(s, p) == RFind(Slice(s, 0, p), <<"]", "(">>)

\* the edit just made for the occurrence m of a Markdown link changed the
\* text before, and put the stars and date of m directly before the "]("
\* that m follows
InOwnLinkText(before, m, info, new_content) ==
    /\ LinkOpenBefore(before, m.start_pos) + 2 = m.start_pos
    /\ Slice(before, m.start_pos, m.end_pos) = m.url
    /\ new_content = Slice(before, 0, m.start_pos - 2) \o <<SP>>
                        \o StripParens(format_info(info))
                        \o From(before, m.start_pos - 2)

\* C14: an annotation written into the text of a Markdown link belongs to
\* the link's own target: whenever the processing of an occurrence of a URL
\* classified as a Markdown link edits the document, the inserted text stands
\* directly before a "](" that is immediately followed by that occurrence;
\* the text of a link that points elsewhere never receives it.
C14_AnnotationInOwnLink ==
    \A i \in 1..Len(last) :
        (last[i].url_match.context = MARKDOWN_LINK /\ last[i].was_updated)
        => InOwnLinkText(last[i].before, last[i].url_match, last[i].info,
                         last[i].new_content)

\* the offset behind the URL that starts at offset p of text, taken with
\* every path-segment character that follows it
LongUrlEnd(text, p) ==
    p + Len(UrlPrefix) + RunLen(text, p + Len(UrlPrefix), PathChars)

\* no recorded span is immediately followed by a path-segment character
SpansAreWholeUrls ==
    \A i \in 1..Len(all_matches) :
        At(content, all_matches[i].end_pos) \notin PathChars

\* a longer URL of the text read, one that goes on behind a recorded
\* reference, stands in the text the loop ends with as often as before
LongerUrlsKept ==
    Completed =>
        \A p \in Occurrences(content, UrlPrefix) :
            (\E i \in 1..Len(all_matches) :
                /\ StartsAt(content, all_matches[i].url, p)
                /\ p + Len(all_matches[i].url) < LongUrlEnd(content, p))
            => Cardinality(Occurrences(updated_content,
                                       Slice(content, p, LongUrlEnd(content, p))))
                 >= Cardinality(Occurrences(content,
                                            Slice(content, p, LongUrlEnd(content, p))))

\* C15: the processor only edits at whole repository URLs: every span
\* find_url_matches records is not immediately followed by "/", ".", "-" or
\* a word character, and a longer URL that has a reference as a prefix is
\* left as it is, with no annotation inside it.
C15_OnlyWholeUrls == SpansAreWholeUrls /\ LongerUrlsKept

====
